---- MODULE Spec2Model ----
(***************************************************************************)
(* Model of the sourcing agent backend: the paginated fetchers of          *)
(* app/services (GoogleSearchService, SerperSearchService), the            *)
(* deduplicating stores of app/repositories (SearchQueryRepository,        *)
(* SearchResultRepository, UserRepository) and the request handlers of     *)
(* app/routes (search_routes, admin_routes).                               *)
(*                                                                         *)
(* SpecFetch runs search_multiple_pages against a search provider whose    *)
(* answers are chosen freely. SpecQuery runs SearchQueryRepository.create, *)
(* SpecStore runs create and create_batch, and SpecBatch runs create_batch *)
(* record by record inside its transaction, against an initially empty     *)
(* database. SpecSearch, SpecGenerate, SpecDelete and SpecById run the     *)
(* request handlers, one request after another, against a database that    *)
(* holds an administrator and a member. SpecAdmin runs the administration  *)
(* of the users, SpecRace runs two repository calls at the same time, and  *)
(* SpecFetchLive is SpecFetch with a fetcher that keeps running.           *)
(***************************************************************************)
EXTENDS Integers, Sequences, FiniteSets, TLC

VARIABLES
    \* ---- search_multiple_pages (one run of the fetcher)
    service,        \* "none" | "google" | "serper": whose search_multiple_pages runs
    requested,      \* the total_results argument of the call
    total_results,  \* the local total_results (google: after min(.., 100))
    cursor,         \* index of the loop iteration about to run (1-based)
    all_results,    \* the local list all_results
    requests,       \* provider calls made so far, in order
    responses,      \* what the provider answered to each call, in order
    position,       \* "idle" | "paging" | "returned" | "raised"
    retval,         \* the returned list once position = "returned"
    \* ---- the database and the repositories' last call
    queries,        \* table search_queries: sequence of rows in insertion order
    results,        \* table search_results: sequence of rows in insertion order
    next_query_id,  \* autoincrement counter of search_queries.id
    next_result_id, \* autoincrement counter of search_results.id
    now,            \* the clock read by datetime.now / func.now
    lastCall,       \* the repository call that produced this state, with what it returned
    session,        \* the open transaction of a create_batch that runs record by record
    users,          \* table users: sequence of rows in insertion order
    next_user_id,   \* autoincrement counter of users.id
    sessions        \* the transactions of two requests served at the same time

fetchVars == <<service, requested, total_results, cursor, all_results,
               requests, responses, position, retval>>
userVars == <<users, next_user_id>>
raceVars == <<sessions>>
storeVars == <<queries, results, next_query_id, next_result_id, now, lastCall,
               session, users, next_user_id, sessions>>
vars == <<service, requested, total_results, cursor, all_results,
          requests, responses, position, retval,
          queries, results, next_query_id, next_result_id, now, lastCall,
          session, users, next_user_id, sessions>>

(***************************************************************************)
(* Bounds of the model and constants of the program                        *)
(***************************************************************************)
\* the most items one provider response may carry (one more than a full page)
MaxPageItems == 11
\* the number of repository calls of one run (each call reads the clock once)
MaxClock == 3
\* the longest batch handed to create_batch
MaxBatch == 2

\* google_search_service.py:115  min(total_results, 100)
GOOGLE_API_LIMIT == 100
\* google_search_service.py:117-118 / serper_search_service.py:112  page size
RESULTS_PER_PAGE == 10
\* config.py:25  the target both execute routes pass
MAX_GOOGLE_SEARCH_RESULTS == 1000

Min(a, b) == IF a <= b THEN a ELSE b
Max(a, b) == IF a >= b THEN a ELSE b

\* the two requests served at the same time, each with its own database session
Sessions == {1, 2}
\* a session between two requests
Idle == [state |-> "idle"]

\* Python's None
None == "None"
\* NULL in a nullable DateTime or Integer column (timestamps and ids are >= 1)
Null == 0

(***************************************************************************)
(* Python helpers                                                          *)
(***************************************************************************)
\* range(lo, hi, step) for step > 0, as a sequence
PyRange(lo, hi, step) ==
    LET n == IF hi > lo THEN (hi - lo + step - 1) \div step ELSE 0
    IN  [i \in 1..n |-> lo + (i - 1) * step]

\* s[:n]
PySliceTo(s, n) ==
    IF n >= 0 THEN SubSeq(s, 1, Min(n, Len(s)))
              ELSE SubSeq(s, 1, Max(0, Len(s) + n))

\* the items of a provider response: item i of the response to call k
PageItems(k, n) == [i \in 1..n |-> <<k, i>>]

(***************************************************************************)
(* The provider                                                            *)
(***************************************************************************)
\* the exceptions httpx can raise out of execute_search
HTTPStatusError == "HTTPStatusError"
TimeoutException == "TimeoutException"
ConnectError == "ConnectError"
ProviderFailures == {HTTPStatusError, TimeoutException, ConnectError}

\* targets the fetchers are called with
GoogleTargets == {-3, 0, 5, 11, 25, 30, 250, MAX_GOOGLE_SEARCH_RESULTS}
SerperTargets == {-3, 0, 5, 11, 25, 30}

(***************************************************************************)
(* GoogleSearchService.search_multiple_pages                               *)
(***************************************************************************)
\* total_results = min(total_results, 100)
GoogleClampUnclamped(t) == t
GoogleClamp(t) == Min(t, GOOGLE_API_LIMIT)

\* range(1, total_results + 1, 10)
GoogleStartsFromZero(total) == PyRange(0, total + 1, RESULTS_PER_PAGE)
GoogleStartsSkipping(total) == PyRange(1, total + 1, 2 * RESULTS_PER_PAGE)
GoogleStarts(total) == PyRange(1, total + 1, RESULTS_PER_PAGE)

\* num_to_fetch = min(10, total_results - start + 1)
GoogleNumToFetchFullPage(total, start) == RESULTS_PER_PAGE
GoogleNumToFetch(total, start) == Min(RESULTS_PER_PAGE, total - start + 1)

\* execute_search: "num": min(num_results, 10), "start": start_index
GoogleRequest(num_results, start_index) ==
    [num |-> Min(num_results, 10), start |-> start_index]

\* if len(results) < num_to_fetch: break
GoogleShortPageOnlyEmpty(n, num_to_fetch) == n = 0
GoogleShortPage(n, num_to_fetch) == n < num_to_fetch

\* except httpx.HTTPStatusError: ... break   (anything else propagates)
GoogleCatchesNothing(exc) == FALSE
GoogleCatches(exc) == exc = HTTPStatusError

GoogleCall(t) ==
    /\ position = "idle"
    /\ service' = "google"
    /\ requested' = t
    /\ total_results' = GoogleClamp(t)
    /\ all_results' = <<>>
    /\ cursor' = 1
    /\ requests' = <<>>
    /\ responses' = <<>>
    /\ IF Len(GoogleStarts(GoogleClamp(t))) = 0
         THEN position' = "returned" /\ retval' = <<>>
         ELSE position' = "paging" /\ retval' = <<>>
    /\ UNCHANGED storeVars

\* one iteration of the loop in which the provider answers with n items
GooglePage(n) ==
    /\ position = "paging" /\ service = "google"
    /\ LET start == GoogleStarts(total_results)[cursor]
           num_to_fetch == GoogleNumToFetch(total_results, start)
           extended == all_results \o PageItems(cursor, n)
           stop == \/ GoogleShortPage(n, num_to_fetch)
                   \/ cursor = Len(GoogleStarts(total_results))
       IN  /\ requests' = Append(requests, GoogleRequest(num_to_fetch, start))
           /\ responses' = Append(responses, [items |-> n])
           /\ all_results' = extended
           /\ IF stop
                THEN position' = "returned" /\ retval' = extended /\ cursor' = cursor
                ELSE position' = "paging" /\ retval' = retval /\ cursor' = cursor + 1
    /\ UNCHANGED <<service, requested, total_results>>
    /\ UNCHANGED storeVars

\* one iteration of the loop in which the provider call raises exc
GooglePageFails(exc) ==
    /\ position = "paging" /\ service = "google"
    /\ LET start == GoogleStarts(total_results)[cursor]
           num_to_fetch == GoogleNumToFetch(total_results, start)
       IN  requests' = Append(requests, GoogleRequest(num_to_fetch, start))
    /\ responses' = Append(responses, [error |-> exc])
    /\ IF GoogleCatches(exc)
         THEN position' = "returned" /\ retval' = all_results
         ELSE position' = "raised" /\ retval' = retval
    /\ UNCHANGED <<service, requested, total_results, cursor, all_results>>
    /\ UNCHANGED storeVars

(***************************************************************************)
(* SerperSearchService.search_multiple_pages                               *)
(***************************************************************************)
\* pages_needed = (total_results + results_per_page - 1) // results_per_page
SerperPagesNeeded(total) == (total + RESULTS_PER_PAGE - 1) \div RESULTS_PER_PAGE

\* range(1, pages_needed + 1)
SerperPages(total) == PyRange(1, SerperPagesNeeded(total) + 1, 1)

\* execute_search: payload = {"q": query, "page": page}; num_results is not sent
SerperRequest(num_results, page) == [page |-> page]

\* if len(all_results) >= total_results: break
SerperEnough(accumulated, total) == accumulated >= total

\* except httpx.HTTPStatusError: ... break
SerperCatches(exc) == exc = HTTPStatusError

\* return all_results[:total_results]
SerperReturn(all, total) == PySliceTo(all, total)

SerperCall(t) ==
    /\ position = "idle"
    /\ service' = "serper"
    /\ requested' = t
    /\ total_results' = t
    /\ all_results' = <<>>
    /\ cursor' = 1
    /\ requests' = <<>>
    /\ responses' = <<>>
    /\ IF Len(SerperPages(t)) = 0
         THEN position' = "returned" /\ retval' = SerperReturn(<<>>, t)
         ELSE position' = "paging" /\ retval' = <<>>
    /\ UNCHANGED storeVars

SerperPage(n) ==
    /\ position = "paging" /\ service = "serper"
    /\ LET page == SerperPages(total_results)[cursor]
           extended == all_results \o PageItems(cursor, n)
           stop == \/ SerperEnough(Len(extended), total_results)
                   \/ cursor = Len(SerperPages(total_results))
       IN  /\ requests' = Append(requests, SerperRequest(RESULTS_PER_PAGE, page))
           /\ responses' = Append(responses, [items |-> n])
           /\ all_results' = extended
           /\ IF stop
                THEN /\ position' = "returned"
                     /\ retval' = SerperReturn(extended, total_results)
                     /\ cursor' = cursor
                ELSE position' = "paging" /\ retval' = retval /\ cursor' = cursor + 1
    /\ UNCHANGED <<service, requested, total_results>>
    /\ UNCHANGED storeVars

SerperPageFails(exc) ==
    /\ position = "paging" /\ service = "serper"
    /\ requests' = Append(requests,
                          SerperRequest(RESULTS_PER_PAGE, SerperPages(total_results)[cursor]))
    /\ responses' = Append(responses, [error |-> exc])
    /\ IF SerperCatches(exc)
         THEN position' = "returned" /\ retval' = SerperReturn(all_results, total_results)
         ELSE position' = "raised" /\ retval' = retval
    /\ UNCHANGED <<service, requested, total_results, cursor, all_results>>
    /\ UNCHANGED storeVars

(***************************************************************************)
(* The database rows and Python's truthiness                               *)
(***************************************************************************)
\* bool(x) of a str-or-None value: "" and None are falsy
Truthy(x) == x # "" /\ x # None

\* the indices of a table, and the ids stored in it
Ids(rows) == {rows[i].id : i \in 1..Len(rows)}

\* the row of a table with a given id (the id is stored)
RowById(rows, id) == rows[CHOOSE i \in 1..Len(rows) : rows[i].id = id]

\* Query.first() over the rows (given by index) that pass the filter: the
\* first of them, 0 for None
First(matching) ==
    IF matching = {} THEN 0
                     ELSE CHOOSE i \in matching : \A j \in matching : i <= j

\* a session's queries flush the rows added so far in the same transaction, so
\* that a look-up sees them (sqlalchemy's Session default)
SessionAutoflush == TRUE

(***************************************************************************)
(* SearchQueryRepository                                                   *)
(***************************************************************************)
\* db.query(SearchQuery).filter(SearchQuery.generated_query == generated_query).first()
get_by_generated_query_by_input(rows, generated_query) ==
    First({i \in 1..Len(rows) : rows[i].user_input = generated_query})
get_by_generated_query(rows, generated_query) ==
    First({i \in 1..Len(rows) : rows[i].generated_query = generated_query})

\* SearchQuery(user_input=..., generated_query=..., created_user_id=...)
NewSearchQuery(id, user_input, generated_query, created_user_id, t) ==
    [id |-> id,
     user_input |-> user_input,
     generated_query |-> generated_query,
     last_search_date |-> Null,
     created_user_id |-> created_user_id,
     last_run_user_id |-> Null,
     created_at |-> t,
     updated_at |-> t]

\* the existing_query branch of create
TouchSearchQueryAsCreator(row, user_input, user_id, t) ==
    [row EXCEPT !.user_input = user_input,
                !.last_search_date = t,
                !.last_run_user_id = user_id,
                !.created_user_id = user_id,
                !.updated_at = t]
TouchSearchQuery(row, user_input, user_id, t) ==
    [row EXCEPT !.user_input = user_input,
                !.last_search_date = t,
                !.last_run_user_id = user_id,
                !.updated_at = t]

\* SearchQueryRepository.create on the table rows at time t: the table after
\* it, the id counter after it, and the id of the row it returns
create(rows, next_id, user_input, generated_query, created_user_id, t) ==
    LET existing_query == get_by_generated_query(rows, generated_query)
    IN  IF existing_query # 0
          THEN [rows |-> [rows EXCEPT ![existing_query] =
                            TouchSearchQuery(@, user_input, created_user_id, t)],
                next_id |-> next_id,
                ret |-> rows[existing_query].id]
          ELSE [rows |-> Append(rows, NewSearchQuery(next_id, user_input,
                                                     generated_query, created_user_id, t)),
                next_id |-> next_id + 1,
                ret |-> next_id]

\* SearchQueryRepository.create
QueryCreate(user_input, generated_query, created_user_id) ==
    /\ now < MaxClock
    /\ now' = now + 1
    /\ LET done == create(queries, next_query_id, user_input, generated_query,
                          created_user_id, now')
       IN  /\ queries' = done.rows
           /\ next_query_id' = done.next_id
           /\ lastCall' = [op |-> "create",
                           user_input |-> user_input,
                           generated_query |-> generated_query,
                           created_user_id |-> created_user_id,
                           before |-> queries,
                           ret |-> done.ret]
    /\ UNCHANGED <<results, next_result_id, session>>
    /\ UNCHANGED userVars
    /\ UNCHANGED fetchVars
    /\ UNCHANGED raceVars

(***************************************************************************)
(* SearchResultRepository                                                  *)
(***************************************************************************)
\* get_by_linkedin_url: None for a falsy url, else filter(linkedin_url == url).first()
get_by_linkedin_url_by_name(rows, linkedin_url) ==
    IF ~Truthy(linkedin_url)
      THEN 0
      ELSE First({i \in 1..Len(rows) : rows[i].name = linkedin_url})
get_by_linkedin_url(rows, linkedin_url) ==
    IF ~Truthy(linkedin_url)
      THEN 0
      ELSE First({i \in 1..Len(rows) : rows[i].linkedin_url = linkedin_url})

\* existing_result = self.get_by_linkedin_url(linkedin_url) if linkedin_url else None
ExistingResultUnguarded(rows, linkedin_url) ==
    First({i \in 1..Len(rows) : rows[i].linkedin_url = linkedin_url})
ExistingResultSkipped(rows, linkedin_url) == 0
ExistingResult(rows, linkedin_url) ==
    IF Truthy(linkedin_url) THEN get_by_linkedin_url(rows, linkedin_url) ELSE 0

\* the existing_result branch of create_batch
UpdateSearchResultWithName(row, payload, executed_by_user_id, t) ==
    [row EXCEPT !.name = payload.name,
                !.snippet = payload.snippet,
                !.description = payload.description,
                !.search_timestamp = t,
                !.result_payload = payload,
                !.executed_by_user_id = executed_by_user_id]
UpdateSearchResultAsNew(row, payload, executed_by_user_id, t) ==
    [row EXCEPT !.snippet = payload.snippet,
                !.description = payload.description,
                !.search_timestamp = t,
                !.enriched_timestamp = Null,
                !.result_payload = payload,
                !.executed_by_user_id = executed_by_user_id]
UpdateSearchResult(row, payload, executed_by_user_id, t) ==
    [row EXCEPT !.snippet = payload.snippet,
                !.description = payload.description,
                !.search_timestamp = t,
                !.result_payload = payload,
                !.executed_by_user_id = executed_by_user_id]

\* SearchResult(search_query_id=..., linkedin_url=..., name=..., ...)
NewSearchResult(id, search_query_id, payload, executed_by_user_id, t) ==
    [id |-> id,
     search_query_id |-> search_query_id,
     linkedin_url |-> payload.link,
     name |-> payload.name,
     snippet |-> payload.snippet,
     description |-> payload.description,
     result_payload |-> payload,
     search_timestamp |-> t,
     enriched_timestamp |-> Null,
     executed_by_user_id |-> executed_by_user_id,
     created_at |-> t]

\* db_results.append(...) of either branch
CollectedInFront(db_results, id) == <<id>> \o db_results
Collected(db_results, id) == Append(db_results, id)

\* the loop of create_batch over results_payload[i..]: st.rows is the table as
\* the session sees it, st.ret the list db_results (as ids)
RECURSIVE UpsertFrom(_, _, _, _, _, _, _)
UpsertFrom(st, stored, results_payload, i, search_query_id, executed_by_user_id, t) ==
    IF i > Len(results_payload)
      THEN st
      ELSE LET payload == results_payload[i]
               linkedin_url == payload.link
               visible == IF SessionAutoflush THEN st.rows ELSE stored
               existing_result == ExistingResult(visible, linkedin_url)
               step ==
                 IF existing_result # 0
                   THEN [rows |-> [st.rows EXCEPT ![existing_result] =
                                     UpdateSearchResult(@, payload, executed_by_user_id, t)],
                         next_id |-> st.next_id,
                         ret |-> Collected(st.ret, st.rows[existing_result].id)]
                   ELSE [rows |-> Append(st.rows,
                                     NewSearchResult(st.next_id, search_query_id, payload,
                                                     executed_by_user_id, t)),
                         next_id |-> st.next_id + 1,
                         ret |-> Collected(st.ret, st.next_id)]
           IN  UpsertFrom(step, stored, results_payload, i + 1,
                          search_query_id, executed_by_user_id, t)

\* SearchResultRepository.create_batch
ResultCreateBatch(search_query_id, results_payload, executed_by_user_id) ==
    /\ now < MaxClock
    /\ search_query_id \in Ids(queries)
    /\ now' = now + 1
    /\ LET done == UpsertFrom([rows |-> results, next_id |-> next_result_id, ret |-> <<>>],
                              results, results_payload, 1,
                              search_query_id, executed_by_user_id, now')
       IN  /\ results' = done.rows
           /\ next_result_id' = done.next_id
           /\ lastCall' = [op |-> "create_batch",
                           search_query_id |-> search_query_id,
                           results_payload |-> results_payload,
                           executed_by_user_id |-> executed_by_user_id,
                           before |-> results,
                           ret |-> done.ret]
    /\ UNCHANGED <<queries, next_query_id, session>>
    /\ UNCHANGED userVars
    /\ UNCHANGED fetchVars
    /\ UNCHANGED raceVars

(***************************************************************************)
(* create_batch record by record, inside the transaction of its session    *)
(***************************************************************************)
\* the session factory: a session does not commit by itself, what it has
\* flushed reaches other requests at its commit and is discarded when it is
\* closed without one
SessionAutocommit == FALSE

\* what the database holds for other requests after an iteration of the loop
\* (the loop body has no commit)
PersistedInLoopEachRecord(stored, rows) == rows
PersistedInLoop(stored, rows) == IF SessionAutocommit THEN rows ELSE stored

\* create_batch is entered: db_results = []
CreateBatchBegin(search_query_id, results_payload, executed_by_user_id) ==
    /\ session.state = "closed"
    /\ now < MaxClock
    /\ search_query_id \in Ids(queries)
    /\ now' = now + 1
    /\ session' = [state |-> "open",
                   search_query_id |-> search_query_id,
                   results_payload |-> results_payload,
                   executed_by_user_id |-> executed_by_user_id,
                   i |-> 1,
                   before |-> results,
                   rows |-> results,
                   next_id |-> next_result_id,
                   ret |-> <<>>,
                   t |-> now']
    /\ UNCHANGED <<queries, results, next_query_id, next_result_id, lastCall>>
    /\ UNCHANGED userVars
    /\ UNCHANGED fetchVars
    /\ UNCHANGED raceVars

\* one iteration of the loop of create_batch
CreateBatchRecord ==
    /\ session.state = "open"
    /\ session.i <= Len(session.results_payload)
    /\ LET step == UpsertFrom([rows |-> session.rows,
                               next_id |-> session.next_id,
                               ret |-> session.ret],
                              session.before,
                              SubSeq(session.results_payload, session.i, session.i), 1,
                              session.search_query_id, session.executed_by_user_id,
                              session.t)
       IN  /\ session' = [session EXCEPT !.i = @ + 1,
                                         !.rows = step.rows,
                                         !.next_id = step.next_id,
                                         !.ret = step.ret]
           /\ results' = PersistedInLoop(results, step.rows)
    /\ UNCHANGED <<queries, next_query_id, next_result_id, now, lastCall>>
    /\ UNCHANGED userVars
    /\ UNCHANGED fetchVars
    /\ UNCHANGED raceVars

\* self.db.commit() after the loop, the refreshes and the return
CreateBatchCommit ==
    /\ session.state = "open"
    /\ session.i > Len(session.results_payload)
    /\ results' = session.rows
    /\ next_result_id' = session.next_id
    /\ lastCall' = [op |-> "create_batch",
                    search_query_id |-> session.search_query_id,
                    results_payload |-> session.results_payload,
                    executed_by_user_id |-> session.executed_by_user_id,
                    before |-> session.before,
                    t |-> session.t,
                    ret |-> session.ret]
    /\ session' = [state |-> "closed"]
    /\ UNCHANGED <<queries, next_query_id, now>>
    /\ UNCHANGED userVars
    /\ UNCHANGED fetchVars
    /\ UNCHANGED raceVars

\* an exception leaves create_batch before its commit has completed (a record
\* that is no mapping, a statement the database refuses, a lost connection):
\* the session is closed without a commit. The ids the database handed out to
\* flushed inserts are not handed out again.
CreateBatchAbort ==
    /\ session.state = "open"
    /\ results' = results
    /\ \E n \in next_result_id..session.next_id : next_result_id' = n
    /\ lastCall' = [op |-> "create_batch_aborted",
                    search_query_id |-> session.search_query_id,
                    results_payload |-> session.results_payload,
                    executed_by_user_id |-> session.executed_by_user_id,
                    before |-> session.before,
                    at |-> session.i]
    /\ session' = [state |-> "closed"]
    /\ UNCHANGED <<queries, next_query_id, now>>
    /\ UNCHANGED userVars
    /\ UNCHANGED fetchVars
    /\ UNCHANGED raceVars

\* filter(SearchResult.search_query_id == query_id) ... .all(), as the set of
\* the rows returned (the order is by search_timestamp, ties are the
\* database's; the limit of 100 is above every table of the model)
ResultsOfQuery(rows, search_query_id) ==
    {rows[i] : i \in {j \in 1..Len(rows) : rows[j].search_query_id = search_query_id}}

\* SearchResultRepository.count_by_query_id
count_by_query_id(rows, query_id) == Cardinality(ResultsOfQuery(rows, query_id))

\* SearchQueryRepository.get_by_user: filter(SearchQuery.created_user_id ==
\* user_id) ... .all(), as the set of the rows returned (the limit is above
\* every table of the model)
get_by_user(rows, user_id) ==
    {rows[i] : i \in {j \in 1..Len(rows) : rows[j].created_user_id = user_id}}

\* GET /queries: what get_my_queries lists for the current user
get_my_queries(current_user) == get_by_user(queries, current_user.id)

\* SearchResultRepository.get_by_query_id called by another request

GetByQueryId(search_query_id) ==
    /\ lastCall' = [op |-> "get_by_query_id",
                    search_query_id |-> search_query_id,
                    ret |-> ResultsOfQuery(results, search_query_id)]
    /\ UNCHANGED <<queries, results, next_query_id, next_result_id, now, session>>
    /\ UNCHANGED userVars
    /\ UNCHANGED fetchVars
    /\ UNCHANGED raceVars

(***************************************************************************)
(* The repository calls the routes are made of, as functions of the tables *)
(***************************************************************************)
\* get_by_id: filter(id == the id).first(), the index of the row or 0 for None
get_by_id_unfiltered(rows, id) == First(1..Len(rows))
get_by_id(rows, id) == First({i \in 1..Len(rows) : rows[i].id = id})

\* the rows of a table without those whose index is in gone
Without(rows, gone) ==
    LET RECURSIVE Keep(_)
        Keep(i) == IF i > Len(rows) THEN <<>>
                   ELSE (IF i \in gone THEN <<>> ELSE <<rows[i]>>) \o Keep(i + 1)
    IN  Keep(1)

\* SearchQueryRepository.update_last_search on a stored row
update_last_search_date_only(row, last_run_user_id, t) ==
    [row EXCEPT !.last_search_date = t, !.updated_at = t]
update_last_search(row, last_run_user_id, t) ==
    [row EXCEPT !.last_search_date = t,
                !.last_run_user_id = last_run_user_id,
                !.updated_at = t]

\* SearchResultRepository.mark_enriched on a stored row
mark_enriched(row, t) == [row EXCEPT !.enriched_timestamp = t]

\* SearchQuery.search_results, cascade="all, delete-orphan": the results that
\* db.delete(db_query) deletes along with the query
CascadeToNone(rows, query_id) == {}
CascadeToAll(rows, query_id) == 1..Len(rows)
Cascade(rows, query_id) == {i \in 1..Len(rows) : rows[i].search_query_id = query_id}

\* the application's tables, as a request finds them
Snapshot == [queries |-> queries, results |-> results, users |-> users]

\* the User that get_current_user hands a route: a stored, active user
CurrentUsers == {users[i] : i \in {j \in 1..Len(users) : users[j].is_active}}
\* the User that get_current_admin_user hands an admin route
CurrentAdmins == {u \in CurrentUsers : u.is_admin}

\* the outcomes of openai_service.generate_search_query: a query text, or the
\* exception of a failed completion call
OpenAIError == "openai.OpenAIError"

\* generated_query = openai_service.generate_search_query(request.user_input)
\* is the first statement of both generating routes: when it raises, the
\* handler is left there
GenerationSwallowed(generated) == FALSE
GenerationFailed(generated) == generated = OpenAIError

\* the outcomes of google_search_service.search_multiple_pages: the list it
\* returns, or the exception it lets through
Returned(items) == [returned |-> items]
Raised(exc) == [raised |-> exc]
HasReturned(outcome) == "returned" \in DOMAIN outcome

(***************************************************************************)
(* app/routes/search_routes.py: one action per request handler. A request  *)
(* that writes reads the clock once.                                       *)
(***************************************************************************)
\* POST /generate
generate_search_query(user_input, current_user, generated) ==
    IF GenerationFailed(generated)
      THEN /\ lastCall' = [op |-> "generate_search_query", status |-> 500,
                           user_input |-> user_input, current_user |-> current_user,
                           generated |-> generated, searched |-> FALSE,
                           before |-> Snapshot]
           /\ UNCHANGED <<queries, results, next_query_id, next_result_id, now,
                          session>>
           /\ UNCHANGED userVars
           /\ UNCHANGED fetchVars
           /\ UNCHANGED raceVars
      ELSE /\ now < MaxClock
           /\ now' = now + 1
           /\ LET db_query == create(queries, next_query_id, user_input, generated,
                                     current_user.id, now')
              IN  /\ queries' = db_query.rows
                  /\ next_query_id' = db_query.next_id
                  /\ lastCall' = [op |-> "generate_search_query", status |-> 200,
                                  user_input |-> user_input,
                                  current_user |-> current_user,
                                  generated |-> generated, searched |-> FALSE,
                                  before |-> Snapshot, ret |-> db_query.ret]
           /\ UNCHANGED <<results, next_result_id, session>>
           /\ UNCHANGED userVars
           /\ UNCHANGED fetchVars
           /\ UNCHANGED raceVars

\* if search_results: result_repo.create_batch(...), then
\* query_repo.update_last_search(query_id, current_user.id): the tables after
SaveAndStamp(qs, rs, next_id, query_id, search_results, current_user, t) ==
    LET saved == IF Len(search_results) > 0
                   THEN UpsertFrom([rows |-> rs, next_id |-> next_id, ret |-> <<>>],
                                   rs, search_results, 1, query_id, current_user.id, t)
                   ELSE [rows |-> rs, next_id |-> next_id, ret |-> <<>>]
        db_query == get_by_id(qs, query_id)
    IN  [queries |-> IF db_query = 0 THEN qs
                     ELSE [qs EXCEPT ![db_query] =
                             update_last_search(@, current_user.id, t)],
         results |-> saved.rows,
         next_id |-> saved.next_id,
         ret |-> saved.ret]

\* POST /execute/{query_id}
execute_search(query_id, current_user, found) ==
    LET db_query == get_by_id(queries, query_id)
        call == [op |-> "execute_search", query_id |-> query_id,
                 current_user |-> current_user, before |-> Snapshot]
    IN  IF db_query = 0
          THEN /\ lastCall' = call @@ [status |-> 404, searched |-> FALSE]
               /\ UNCHANGED <<queries, results, next_query_id, next_result_id, now,
                              session>>
               /\ UNCHANGED userVars
               /\ UNCHANGED fetchVars
               /\ UNCHANGED raceVars
          ELSE IF ~HasReturned(found)
          THEN /\ lastCall' = call @@ [status |-> 500, searched |-> TRUE,
                                       found |-> found]
               /\ UNCHANGED <<queries, results, next_query_id, next_result_id, now,
                              session>>
               /\ UNCHANGED userVars
               /\ UNCHANGED fetchVars
               /\ UNCHANGED raceVars
          ELSE /\ now < MaxClock
               /\ now' = now + 1
               /\ LET done == SaveAndStamp(queries, results, next_result_id, query_id,
                                           found.returned, current_user, now')
                  IN  /\ queries' = done.queries
                      /\ results' = done.results
                      /\ next_result_id' = done.next_id
                      /\ lastCall' = call @@ [status |-> 200, searched |-> TRUE,
                                              found |-> found, ret |-> done.ret]
               /\ UNCHANGED <<next_query_id, session>>
               /\ UNCHANGED userVars
               /\ UNCHANGED fetchVars
               /\ UNCHANGED raceVars

\* POST /generate-and-execute
generate_and_execute_search(user_input, current_user, generated, found) ==
    LET call == [op |-> "generate_and_execute_search", user_input |-> user_input,
                 current_user |-> current_user, generated |-> generated,
                 before |-> Snapshot]
    IN  IF GenerationFailed(generated)
          THEN /\ lastCall' = call @@ [status |-> 500, searched |-> FALSE]
               /\ UNCHANGED <<queries, results, next_query_id, next_result_id, now,
                              session>>
               /\ UNCHANGED userVars
               /\ UNCHANGED fetchVars
               /\ UNCHANGED raceVars
          ELSE /\ now < MaxClock
               /\ now' = now + 1
               /\ LET db_query == create(queries, next_query_id, user_input, generated,
                                         current_user.id, now')
                      done == SaveAndStamp(db_query.rows, results, next_result_id,
                                           db_query.ret, found.returned, current_user,
                                           now')
                  IN  IF ~HasReturned(found)
                        THEN /\ queries' = db_query.rows
                             /\ next_query_id' = db_query.next_id
                             /\ lastCall' = call @@ [status |-> 500, searched |-> TRUE,
                                                     found |-> found,
                                                     query_id |-> db_query.ret]
                             /\ UNCHANGED <<results, next_result_id>>
                        ELSE /\ queries' = done.queries
                             /\ next_query_id' = db_query.next_id
                             /\ results' = done.results
                             /\ next_result_id' = done.next_id
                             /\ lastCall' = call @@ [status |-> 200, searched |-> TRUE,
                                                     found |-> found,
                                                     query_id |-> db_query.ret,
                                                     ret |-> done.ret]
               /\ UNCHANGED session
               /\ UNCHANGED userVars
               /\ UNCHANGED fetchVars
               /\ UNCHANGED raceVars

\* POST /results/{result_id}/enrich
mark_result_enriched(result_id, current_user) ==
    LET db_result == get_by_id(results, result_id)
        call == [op |-> "mark_result_enriched", result_id |-> result_id,
                 current_user |-> current_user, searched |-> FALSE,
                 before |-> Snapshot]
    IN  IF db_result = 0
          THEN /\ lastCall' = call @@ [status |-> 404]
               /\ UNCHANGED <<queries, results, next_query_id, next_result_id, now,
                              session>>
               /\ UNCHANGED userVars
               /\ UNCHANGED fetchVars
               /\ UNCHANGED raceVars
          ELSE /\ now < MaxClock
               /\ now' = now + 1
               /\ results' = [results EXCEPT ![db_result] = mark_enriched(@, now')]
               /\ lastCall' = call @@ [status |-> 200]
               /\ UNCHANGED <<queries, next_query_id, next_result_id, session>>
               /\ UNCHANGED userVars
               /\ UNCHANGED fetchVars
               /\ UNCHANGED raceVars

\* SearchQueryRepository.delete of a stored query: db.delete(db_query), which
\* deletes the query's search_results with it
delete(db_query) ==
    /\ queries' = Without(queries, {db_query})
    /\ results' = Without(results, Cascade(results, queries[db_query].id))

\* the rest of a request that reads no clock and hands out no id
NothingElse(call) ==
    /\ lastCall' = call
    /\ UNCHANGED <<next_query_id, next_result_id, now, session>>
    /\ UNCHANGED userVars
    /\ UNCHANGED fetchVars
    /\ UNCHANGED raceVars

\* a request that answers and writes nothing
Answer(call) ==
    /\ UNCHANGED <<queries, results>>
    /\ NothingElse(call)

\* creator-or-admin check of delete_query
NotAuthorizedNever(row, current_user) ==
    row.created_user_id # row.created_user_id /\ ~current_user.is_admin
NotAuthorized(row, current_user) ==
    row.created_user_id # current_user.id /\ ~current_user.is_admin

\* DELETE /queries/{query_id}
delete_query(query_id, current_user) ==
    LET db_query == get_by_id(queries, query_id)
        call == [op |-> "delete_query", query_id |-> query_id,
                 current_user |-> current_user, searched |-> FALSE,
                 before |-> Snapshot]
    IN  IF db_query = 0
          THEN Answer(call @@ [status |-> 404])
          ELSE IF NotAuthorized(queries[db_query], current_user)
          THEN Answer(call @@ [status |-> 403])
          ELSE /\ delete(db_query)
               /\ NothingElse(call @@ [status |-> 200])

\* DELETE /api/admin/queries/{query_id}
admin_delete_query(query_id, current_admin) ==
    LET db_query == get_by_id(queries, query_id)
        call == [op |-> "admin_delete_query", query_id |-> query_id,
                 current_user |-> current_admin, searched |-> FALSE,
                 before |-> Snapshot]
    IN  IF db_query = 0
          THEN Answer(call @@ [status |-> 404])
          ELSE /\ delete(db_query)
               /\ NothingElse(call @@ [status |-> 200])

\* GET /queries/{query_id}
get_query(query_id, current_user) ==
    LET db_query == get_by_id(queries, query_id)
        call == [op |-> "get_query", query_id |-> query_id,
                 current_user |-> current_user, searched |-> FALSE,
                 before |-> Snapshot]
    IN  IF db_query = 0
          THEN Answer(call @@ [status |-> 404])
          ELSE Answer(call @@ [status |-> 200, ret |-> queries[db_query]])

\* GET /queries/{query_id}/results
get_query_results(query_id, current_user) ==
    LET db_query == get_by_id(queries, query_id)
        call == [op |-> "get_query_results", query_id |-> query_id,
                 current_user |-> current_user, searched |-> FALSE,
                 before |-> Snapshot]
    IN  IF db_query = 0
          THEN Answer(call @@ [status |-> 404])
          ELSE Answer(call @@ [status |-> 200,
                               total_results |->
                                   Cardinality(Cascade(results, query_id)),
                               ret |-> ResultsOfQuery(results, query_id)])

\* x or ""
OrEmpty(x) == IF Truthy(x) THEN x ELSE ""

\* the data rows of the CSV (the names and snippets of the model are never empty)
CsvRows(db_query, rows) ==
    {<<db_query.user_input, db_query.generated_query, r.name, r.snippet,
       OrEmpty(r.linkedin_url), r.created_at>> : r \in rows}

\* GET /queries/{query_id}/export
export_query_results_to_csv(query_id, current_user) ==
    LET db_query == get_by_id(queries, query_id)
        call == [op |-> "export_query_results_to_csv", query_id |-> query_id,
                 current_user |-> current_user, searched |-> FALSE,
                 before |-> Snapshot]
    IN  IF db_query = 0
          THEN Answer(call @@ [status |-> 404])
          ELSE Answer(call @@ [status |-> 200,
                               ret |-> CsvRows(queries[db_query],
                                               ResultsOfQuery(results, query_id))])

(***************************************************************************)
(* app/routes/admin_routes.py and UserRepository: the users' administration *)
(***************************************************************************)
\* get_password_hash: a salted hash, never the same twice
get_password_hash(password, t) == <<"hash", password, t>>

\* get_by_email / get_by_username: filter(...).first(), index or 0
get_by_email(rows, email) == First({i \in 1..Len(rows) : rows[i].email = email})
get_by_username_by_email(rows, username) ==
    First({i \in 1..Len(rows) : rows[i].email = username})
get_by_username(rows, username) ==
    First({i \in 1..Len(rows) : rows[i].username = username})

\* the fields a UserUpdate body has set (model_dump(exclude_unset=True))
Sets(user_data, field) == field \in DOMAIN user_data

\* UserRepository.update on a stored row: setattr for every field set
update(row, user_data, t) ==
    [f \in DOMAIN row |->
        IF f \in DOMAIN user_data THEN user_data[f]
        ELSE IF f = "updated_at" THEN t
        ELSE row[f]]

\* the uniqueness checks of update_user: the body names an email or a username
\* that differs from the user's own and that a stored user has
Taken(rows, existing_user, user_data) ==
    \/ /\ Sets(user_data, "email")
       /\ user_data.email # existing_user.email
       /\ get_by_email(rows, user_data.email) # 0
    \/ /\ Sets(user_data, "username")
       /\ user_data.username # existing_user.username
       /\ get_by_username(rows, user_data.username) # 0

\* the rest of an administration request that stamps the user it writes
Administered(call) ==
    /\ now < MaxClock
    /\ now' = now + 1
    /\ lastCall' = call
    /\ next_user_id' = next_user_id
    /\ UNCHANGED <<queries, results, next_query_id, next_result_id, session>>
    /\ UNCHANGED fetchVars
    /\ UNCHANGED raceVars

\* the rest of an administration request that writes nothing
Refused(call) ==
    /\ users' = users
    /\ Answer(call)

\* GET /api/admin/users/{user_id}
get_user(user_id, current_admin) ==
    LET user == get_by_id(users, user_id)
        call == [op |-> "get_user", user_id |-> user_id,
                 current_user |-> current_admin, searched |-> FALSE,
                 before |-> Snapshot]
    IN  IF user = 0 THEN Refused(call @@ [status |-> 404])
                    ELSE Refused(call @@ [status |-> 200, ret |-> users[user]])

\* PUT /api/admin/users/{user_id}
update_user(user_id, user_data, current_admin) ==
    LET existing_user == get_by_id(users, user_id)
        call == [op |-> "update_user", user_id |-> user_id, user_data |-> user_data,
                 current_user |-> current_admin, searched |-> FALSE,
                 before |-> Snapshot]
    IN  IF existing_user = 0
          THEN Refused(call @@ [status |-> 404])
          ELSE IF Taken(users, users[existing_user], user_data)
          THEN Refused(call @@ [status |-> 400])
          ELSE /\ Administered(call @@ [status |-> 200])
               /\ users' = [users EXCEPT ![existing_user] = update(@, user_data, now')]

\* POST /api/admin/users/{user_id}/deactivate
deactivate_user(user_id, current_admin) ==
    LET user == get_by_id(users, user_id)
        call == [op |-> "deactivate_user", user_id |-> user_id,
                 current_user |-> current_admin, searched |-> FALSE,
                 before |-> Snapshot]
    IN  IF user_id = current_admin.id
          THEN Refused(call @@ [status |-> 400])
          ELSE IF user = 0
          THEN Refused(call @@ [status |-> 404])
          ELSE /\ Administered(call @@ [status |-> 200])
               /\ users' = [users EXCEPT ![user] =
                               [@ EXCEPT !.is_active = FALSE, !.updated_at = now']]

\* POST /api/admin/users/{user_id}/activate
activate_user(user_id, current_admin) ==
    LET user == get_by_id(users, user_id)
        call == [op |-> "activate_user", user_id |-> user_id,
                 current_user |-> current_admin, searched |-> FALSE,
                 before |-> Snapshot]
    IN  IF user = 0
          THEN Refused(call @@ [status |-> 404])
          ELSE /\ Administered(call @@ [status |-> 200])
               /\ users' = [users EXCEPT ![user] =
                               [@ EXCEPT !.is_active = TRUE, !.updated_at = now']]

\* POST /api/admin/users/{user_id}/reset-password
reset_user_password(user_id, new_password, current_admin) ==
    LET user == get_by_id(users, user_id)
        call == [op |-> "reset_user_password", user_id |-> user_id,
                 current_user |-> current_admin, searched |-> FALSE,
                 before |-> Snapshot]
    IN  IF user = 0
          THEN Refused(call @@ [status |-> 404])
          ELSE /\ Administered(call @@ [status |-> 200])
               /\ users' = [users EXCEPT ![user] =
                               [@ EXCEPT !.hashed_password =
                                             get_password_hash(new_password, now'),
                                         !.updated_at = now']]

\* the rows that keep a user from being deleted: db.delete(db_user) sets the
\* foreign keys of the user's queries and results to NULL, which
\* created_user_id and executed_by_user_id (nullable=False) refuse
Dependents(user_id) ==
    \/ \E i \in 1..Len(queries) : queries[i].created_user_id = user_id
    \/ \E i \in 1..Len(results) : results[i].executed_by_user_id = user_id

\* the queries after the deletion of a user who last ran some of them
Orphaned(rows, user_id, t) ==
    [i \in 1..Len(rows) |->
        IF rows[i].last_run_user_id = user_id
          THEN [rows[i] EXCEPT !.last_run_user_id = Null, !.updated_at = t]
          ELSE rows[i]]

\* DELETE /api/admin/users/{user_id}
delete_user(user_id, current_admin) ==
    LET user == get_by_id(users, user_id)
        call == [op |-> "delete_user", user_id |-> user_id,
                 current_user |-> current_admin, searched |-> FALSE,
                 before |-> Snapshot]
    IN  IF user_id = current_admin.id
          THEN Refused(call @@ [status |-> 400])
          ELSE IF user = 0
          THEN Refused(call @@ [status |-> 404])
          ELSE IF Dependents(user_id)
          THEN Refused(call @@ [status |-> 500])
          ELSE /\ now < MaxClock
               /\ now' = now + 1
               /\ users' = Without(users, {user})
               /\ queries' = Orphaned(queries, user_id, now')
               /\ lastCall' = call @@ [status |-> 200]
               /\ UNCHANGED <<results, next_query_id, next_result_id, session,
                              next_user_id>>
               /\ UNCHANGED fetchVars
               /\ UNCHANGED raceVars

\* UserRepository.create: the row of a UserCreate body, active by the column's
\* default, stamped by the server at the insert
NewUser(user_data, id, t) ==
    [id |-> id,
     email |-> user_data.email,
     username |-> user_data.username,
     hashed_password |-> get_password_hash(user_data.password, t),
     full_name |-> user_data.full_name,
     is_active |-> TRUE,
     is_admin |-> user_data.is_admin,
     created_at |-> t,
     updated_at |-> t]

\* POST /api/admin/users
create_user(user_data, current_admin) ==
    LET call == [op |-> "create_user", user_data |-> user_data,
                 current_user |-> current_admin, searched |-> FALSE,
                 before |-> Snapshot]
    IN  IF get_by_email(users, user_data.email) # 0
          THEN Refused(call @@ [status |-> 400, detail |-> "Email already registered"])
          ELSE IF get_by_username(users, user_data.username) # 0
          THEN Refused(call @@ [status |-> 400, detail |-> "Username already taken"])
          ELSE /\ now < MaxClock
               /\ now' = now + 1
               /\ users' = Append(users, NewUser(user_data, next_user_id, now'))
               /\ next_user_id' = next_user_id + 1
               /\ lastCall' = call @@ [status |-> 201, ret |-> next_user_id]
               /\ UNCHANGED <<queries, results, next_query_id, next_result_id,
                              session>>
               /\ UNCHANGED fetchVars
               /\ UNCHANGED raceVars

(***************************************************************************)
(* Two requests at the same time: each repository call is a look-up in its *)
(* own session followed by the flush and commit of what it then changed    *)
(* or added. A session sees what was committed when it looks up, never the *)
(* other session's pending objects.                                        *)
(***************************************************************************)
\* the UPDATE a commit flushes for a loaded object: the attributes whose value
\* was changed after the load are written, the row's other columns stay as
\* the table has them
Flushed(current, loaded, changed) ==
    [f \in DOMAIN current |->
        IF changed[f] # loaded[f] THEN changed[f] ELSE current[f]]

\* the rest of a step of one session that commits nothing
LookedUp(s, pending) ==
    /\ sessions[s] = Idle
    /\ sessions' = [sessions EXCEPT ![s] = pending @@ [state |-> "looked up"]]
    /\ UNCHANGED <<queries, results, next_query_id, next_result_id, now, lastCall,
                   session>>
    /\ UNCHANGED userVars
    /\ UNCHANGED fetchVars

\* SearchQueryRepository.create up to its look-up:
\* existing_query = self.get_by_generated_query(generated_query)
create_look_up(s, user_input, generated_query, created_user_id) ==
    LookedUp(s, [op |-> "create",
                 user_input |-> user_input,
                 generated_query |-> generated_query,
                 created_user_id |-> created_user_id,
                 before |-> queries,
                 existing |-> get_by_generated_query(queries, generated_query)])

\* SearchQueryRepository.create from its look-up on: the existing_query
\* branch or the insert, and self.db.commit()
create_commit(s) ==
    LET own == sessions[s]
    IN  /\ own # Idle
        /\ own.op = "create"
        /\ now < MaxClock
        /\ now' = now + 1
        /\ IF own.existing # 0
             THEN LET loaded == own.before[own.existing]
                  IN  /\ queries' = [queries EXCEPT ![own.existing] =
                                        Flushed(@, loaded,
                                                TouchSearchQuery(loaded, own.user_input,
                                                                 own.created_user_id,
                                                                 now'))]
                      /\ next_query_id' = next_query_id
                      /\ lastCall' = [op |-> "create", session |-> s,
                                      generated_query |-> own.generated_query,
                                      before |-> queries, ret |-> loaded.id]
             ELSE /\ queries' = Append(queries,
                                       NewSearchQuery(next_query_id, own.user_input,
                                                      own.generated_query,
                                                      own.created_user_id, now'))
                  /\ next_query_id' = next_query_id + 1
                  /\ lastCall' = [op |-> "create", session |-> s,
                                  generated_query |-> own.generated_query,
                                  before |-> queries, ret |-> next_query_id]
        /\ sessions' = [sessions EXCEPT ![s] = Idle]
        /\ UNCHANGED <<results, next_result_id, session>>
        /\ UNCHANGED userVars
        /\ UNCHANGED fetchVars

\* SearchResultRepository.create_batch of one record up to its look-up:
\* existing_result = self.get_by_linkedin_url(linkedin_url) if linkedin_url else None
create_batch_look_up(s, search_query_id, payload, executed_by_user_id) ==
    /\ search_query_id \in Ids(queries)
    /\ LookedUp(s, [op |-> "create_batch",
                    search_query_id |-> search_query_id,
                    payload |-> payload,
                    executed_by_user_id |-> executed_by_user_id,
                    before |-> results,
                    existing |-> ExistingResult(results, payload.link)])

\* SearchResultRepository.create_batch of one record from its look-up on: the
\* existing_result branch or the insert, and self.db.commit()
create_batch_commit(s) ==
    LET own == sessions[s]
    IN  /\ own # Idle
        /\ own.op = "create_batch"
        /\ now < MaxClock
        /\ now' = now + 1
        /\ IF own.existing # 0
             THEN LET loaded == own.before[own.existing]
                  IN  /\ results' = [results EXCEPT ![own.existing] =
                                        Flushed(@, loaded,
                                                UpdateSearchResult(loaded, own.payload,
                                                                   own.executed_by_user_id,
                                                                   now'))]
                      /\ next_result_id' = next_result_id
                      /\ lastCall' = [op |-> "create_batch", session |-> s,
                                      payload |-> own.payload,
                                      before |-> results, ret |-> <<loaded.id>>]
             ELSE /\ results' = Append(results,
                                       NewSearchResult(next_result_id,
                                                       own.search_query_id, own.payload,
                                                       own.executed_by_user_id, now'))
                  /\ next_result_id' = next_result_id + 1
                  /\ lastCall' = [op |-> "create_batch", session |-> s,
                                  payload |-> own.payload,
                                  before |-> results, ret |-> <<next_result_id>>]
        /\ sessions' = [sessions EXCEPT ![s] = Idle]
        /\ UNCHANGED <<queries, next_query_id, session>>
        /\ UNCHANGED userVars
        /\ UNCHANGED fetchVars

(***************************************************************************)
(* The requests of a run                                                   *)
(***************************************************************************)
Users == {1, 2}
UserInputs == {"find rails developers", "find ruby developers"}
GeneratedQueries == {"site:linkedin.com/in rails", "site:linkedin.com/in python"}

\* what a parsed item's "link" may hold: two profile URLs, the empty string, null
Links == {"https://linkedin.com/in/a", "https://linkedin.com/in/b", "", None}
\* the rest of a parsed item (name, snippet, description) as the provider
\* serves it at one time or another
Contents == 1..MaxClock

Payload(link, c) ==
    [link |-> link,
     name |-> <<"name", link, c>>,
     snippet |-> <<"snippet", c>>,
     description |-> <<"description", c>>]

\* the batches of one to MaxBatch parsed items, all fetched at one time
Batches(links, contents) ==
    UNION {{[i \in 1..n |-> Payload(ls[i], c)] : ls \in [1..n -> links], c \in contents}
           : n \in 1..MaxBatch}

\* the batches SpecStore submits at time t: every link kind, the content the
\* provider serves at that time, one acting user
StoreBatches == [t \in Contents |-> Batches(Links, {t})]
\* the batches of SpecBatch: profile URLs only
BatchBatches == [t \in Contents |->
                   Batches({"https://linkedin.com/in/a", "https://linkedin.com/in/b"}, {t})]
\* what search_multiple_pages hands a route at time t: the first n of the
\* provider's items for n up to MaxBatch, or a failure it lets through
LinkOrder == <<"https://linkedin.com/in/a", "https://linkedin.com/in/b", "", None>>
Found == [t \in Contents |->
            {Returned([i \in 1..n |-> Payload(LinkOrder[((i - 1) % 4) + 1], t)])
                 : n \in 0..MaxBatch}
            \cup {Raised(TimeoutException)}]

\* the users a deployment starts with: the administrator of
\* scripts/create_admin.py and a member the administrator has created
SeedUser(id, username, is_admin) ==
    [id |-> id,
     email |-> <<username, "@example.com">>,
     username |-> username,
     hashed_password |-> <<"hash", username, 0>>,
     full_name |-> None,
     is_active |-> TRUE,
     is_admin |-> is_admin,
     created_at |-> 0,
     updated_at |-> 0]
SeedUsers == <<SeedUser(1, "admin", TRUE), SeedUser(2, "member", FALSE)>>

\* the bodies of update_user: a field or two of UserUpdate set
UserUpdates ==
    {[is_active |-> FALSE],
     [username |-> "admin"],
     [email |-> <<"member", "@example.org">>, is_admin |-> TRUE]}
\* the bodies of create_user: the seeded member's email or a new one, the
\* seeded administrator's username or a new one, as a member or an administrator
UserCreates ==
    {[email |-> <<e, "@example.com">>, username |-> n, full_name |-> None,
      password |-> "secret", is_admin |-> a] :
        e \in {"member", "guest"}, n \in {"admin", "guest"}, a \in BOOLEAN}
\* the one-item answer of the provider at time t
FoundOne == [t \in Contents |-> Returned(<<Payload(LinkOrder[1], t)>>)]

StoreUser == CHOOSE u \in Users : TRUE
StoreUserInput == CHOOSE ui \in UserInputs : TRUE
StoreGeneratedQuery == CHOOSE gq \in GeneratedQueries : TRUE

(***************************************************************************)
(* Specification of the fetchers                                           *)
(***************************************************************************)
InitStore ==
    /\ queries = <<>>
    /\ results = <<>>
    /\ next_query_id = 1
    /\ next_result_id = 1
    /\ now = 0
    /\ lastCall = [op |-> "none"]
    /\ session = [state |-> "closed"]
    /\ sessions = [s \in Sessions |-> Idle]
    /\ users = <<>>
    /\ next_user_id = 1

InitFetch ==
    /\ service = "none"
    /\ requested = 0
    /\ total_results = 0
    /\ cursor = 1
    /\ all_results = <<>>
    /\ requests = <<>>
    /\ responses = <<>>
    /\ position = "idle"
    /\ retval = <<>>

Init == InitFetch /\ InitStore

\* an empty database but for the seeded users
InitApp ==
    /\ InitFetch
    /\ queries = <<>>
    /\ results = <<>>
    /\ next_query_id = 1
    /\ next_result_id = 1
    /\ now = 0
    /\ lastCall = [op |-> "none"]
    /\ session = [state |-> "closed"]
    /\ sessions = [s \in Sessions |-> Idle]
    /\ users = SeedUsers
    /\ next_user_id = Len(SeedUsers) + 1

NextFetch ==
    \/ \E t \in GoogleTargets : GoogleCall(t)
    \/ \E n \in 0..MaxPageItems : GooglePage(n)
    \/ \E exc \in ProviderFailures : GooglePageFails(exc)
    \/ \E t \in SerperTargets : SerperCall(t)
    \/ \E n \in 0..MaxPageItems : SerperPage(n)
    \/ \E exc \in ProviderFailures : SerperPageFails(exc)

SpecFetch == Init /\ [][NextFetch]_vars

\* the loop runs in the thread of its request and every provider call returns
\* or raises within the client's timeout of 30 seconds: a run that can take a
\* step takes one
SpecFetchLive == Init /\ [][NextFetch]_vars /\ WF_vars(NextFetch)

NextQuery ==
    \E ui \in UserInputs, gq \in GeneratedQueries, u \in Users : QueryCreate(ui, gq, u)

SpecQuery == Init /\ [][NextQuery]_vars

NextStore ==
    \/ \E gq \in GeneratedQueries :
           QueryCreate(StoreUserInput, gq, StoreUser)
    \/ /\ now < MaxClock
       /\ \E q \in Ids(queries), batch \in StoreBatches[now + 1] :
              ResultCreateBatch(q, batch, StoreUser)

SpecStore == Init /\ [][NextStore]_vars

\* create and a create_batch that runs record by record while another request
\* reads the results of a query
NextBatch ==
    \/ \E gq \in GeneratedQueries :
           /\ session.state = "closed"
           /\ QueryCreate(StoreUserInput, gq, StoreUser)
    \/ /\ now < MaxClock
       /\ \E q \in Ids(queries), batch \in BatchBatches[now + 1] :
              CreateBatchBegin(q, batch, StoreUser)
    \/ CreateBatchRecord
    \/ CreateBatchCommit
    \/ CreateBatchAbort
    \/ \E q \in Ids(queries) : GetByQueryId(q)

SpecBatch == Init /\ [][NextBatch]_vars

\* the requests that run searches and mark results
NextSearch ==
    \/ /\ now < MaxClock
       /\ \E u \in CurrentUsers, g \in GeneratedQueries \cup {OpenAIError},
             found \in Found[now + 1] :
              generate_and_execute_search(StoreUserInput, u, g, found)
    \/ /\ now < MaxClock
       /\ \E q \in Ids(queries), u \in CurrentUsers, found \in Found[now + 1] :
              execute_search(q, u, found)
    \/ \E r \in Ids(results), u \in CurrentAdmins : mark_result_enriched(r, u)

SpecSearch == InitApp /\ [][NextSearch]_vars

\* the requests that generate queries, with searches of at most one item
NextGenerate ==
    \/ \E ui \in UserInputs, u \in CurrentUsers,
          g \in GeneratedQueries \cup {OpenAIError} :
           generate_search_query(ui, u, g)
    \/ /\ now < MaxClock
       /\ \E u \in CurrentUsers, g \in GeneratedQueries \cup {OpenAIError},
             found \in Found[now + 1] :
              /\ HasReturned(found)
              /\ Len(found.returned) <= 1
              /\ generate_and_execute_search(StoreUserInput, u, g, found)

SpecGenerate == InitApp /\ [][NextGenerate]_vars

\* the requests that delete queries, after searches by either user
NextDelete ==
    \/ /\ now < MaxClock
       /\ \E u \in CurrentUsers, g \in GeneratedQueries, found \in Found[now + 1] :
              /\ HasReturned(found)
              /\ found.returned # <<>>
              /\ generate_and_execute_search(StoreUserInput, u, g, found)
    \/ \E q \in Ids(queries), u \in CurrentUsers : delete_query(q, u)
    \/ \E q \in Ids(queries), u \in CurrentAdmins : admin_delete_query(q, u)

SpecDelete == InitApp /\ [][NextDelete]_vars

\* every request that addresses a query, a result or a user by id, the id being
\* stored, deleted or never handed out
NextById ==
    \/ /\ now < MaxClock
       /\ \E u \in CurrentUsers :
              generate_and_execute_search(StoreUserInput, u, StoreGeneratedQuery,
                                          FoundOne[now + 1])
    \/ /\ now < MaxClock
       /\ \E q \in 1..next_query_id, u \in CurrentAdmins :
              execute_search(q, u, FoundOne[now + 1])
    \/ \E q \in 1..next_query_id, u \in CurrentAdmins : get_query(q, u)
    \/ \E q \in 1..next_query_id, u \in CurrentAdmins : get_query_results(q, u)
    \/ \E q \in 1..next_query_id, u \in CurrentAdmins :
           export_query_results_to_csv(q, u)
    \/ \E q \in 1..next_query_id, u \in CurrentUsers : delete_query(q, u)
    \/ \E q \in 1..next_query_id, u \in CurrentAdmins : admin_delete_query(q, u)
    \/ \E r \in 1..next_result_id, u \in CurrentAdmins : mark_result_enriched(r, u)
    \/ \E id \in 1..next_user_id, u \in CurrentAdmins : get_user(id, u)
    \/ \E id \in 1..next_user_id, data \in UserUpdates, u \in CurrentAdmins :
           update_user(id, data, u)
    \/ \E id \in 1..next_user_id, u \in CurrentAdmins : deactivate_user(id, u)
    \/ \E id \in 1..next_user_id, u \in CurrentAdmins : activate_user(id, u)
    \/ \E id \in 1..next_user_id, u \in CurrentAdmins :
           reset_user_password(id, "secret", u)
    \/ \E id \in 1..next_user_id, u \in CurrentAdmins : delete_user(id, u)

SpecById == InitApp /\ [][NextById]_vars

\* the administration of the users, by whoever is an active administrator
NextAdmin ==
    \/ \E data \in UserCreates, u \in CurrentAdmins : create_user(data, u)
    \/ \E id \in Ids(users), u \in CurrentAdmins : get_user(id, u)
    \/ \E id \in Ids(users), data \in UserUpdates, u \in CurrentAdmins :
           update_user(id, data, u)
    \/ \E id \in Ids(users), u \in CurrentAdmins : deactivate_user(id, u)
    \/ \E id \in Ids(users), u \in CurrentAdmins : activate_user(id, u)
    \/ \E id \in Ids(users), u \in CurrentAdmins :
           reset_user_password(id, "secret", u)
    \/ \E id \in Ids(users), u \in CurrentAdmins : delete_user(id, u)

SpecAdmin == InitApp /\ [][NextAdmin]_vars

\* two sessions that create queries and store one fetched record each, their
\* look-ups and commits interleaved in every order; session s fetches the
\* provider's content s
NextRace ==
    \/ \E s \in Sessions, g \in GeneratedQueries, u \in CurrentUsers :
           create_look_up(s, StoreUserInput, g, u.id)
    \/ \E s \in Sessions : create_commit(s)
    \/ \E s \in Sessions, q \in Ids(queries), u \in CurrentUsers :
           create_batch_look_up(s, q, Payload(LinkOrder[1], s), u.id)
    \/ \E s \in Sessions : create_batch_commit(s)

SpecRace == InitApp /\ [][NextRace]_vars

(***************************************************************************)
(* Properties of the fetchers (SpecFetch)                                  *)
(***************************************************************************)
IsItems(response) == "items" \in DOMAIN response
IsError(response) == "error" \in DOMAIN response

\* the items of the responses to calls 1..k, first page first
RECURSIVE ItemsOfPages(_)
ItemsOfPages(k) ==
    IF k = 0 THEN <<>>
             ELSE ItemsOfPages(k - 1) \o PageItems(k, responses[k].items)

\* the number of items accumulated before call i is made
RECURSIVE AccumulatedBefore(_)
AccumulatedBefore(i) ==
    IF i <= 1 THEN 0
              ELSE AccumulatedBefore(i - 1) + responses[i - 1].items

\* call k of the google fetcher was answered with fewer items than it asked for
GoogleShortAt(k) == IsItems(responses[k]) /\ responses[k].items < requests[k].num

\* C5: if page k is the first page of a google run that returns strictly fewer
\* items than were requested, the run has returned, made exactly k provider
\* calls and returned exactly the items of pages 1..k in page order.
C5_ShortPageEndsRun ==
    service = "google" =>
        \A k \in 1..Len(responses) :
            (GoogleShortAt(k) /\ \A j \in 1..(k - 1) : ~GoogleShortAt(j)) =>
                /\ position = "returned"
                /\ Len(requests) = k
                /\ retval = ItemsOfPages(k)

\* C5 witness: 5 items on page 1 for a target of 30: 5 items, one call
C5_Witness ==
    /\ service = "google" /\ requested = 30
    /\ responses = <<[items |-> 5]>>
    /\ position = "returned"
    /\ Len(requests) = 1
    /\ Len(retval) = 5

\* C6: if the provider call for page k of a google run fails with an HTTP
\* status error, the run raises nothing, makes no further call and returns
\* exactly the items accumulated from pages 1..k-1.
C6_HttpErrorReturnsPartial ==
    service = "google" =>
        \A k \in 1..Len(responses) :
            responses[k] = [error |-> HTTPStatusError] =>
                /\ position = "returned"
                /\ Len(requests) = k
                /\ retval = ItemsOfPages(k - 1)

\* C6 witness: the second of three expected pages fails, page 1 is returned
C6_Witness ==
    /\ service = "google" /\ requested = 30
    /\ responses = <<[items |-> 10], [error |-> HTTPStatusError]>>
    /\ position = "returned"
    /\ retval = PageItems(1, 10)

\* C7: no provider call failure during pagination (HTTP error status, network
\* timeout, connection error) propagates as an exception to the caller of
\* search_multiple_pages.
C7_NoFailurePropagates == position # "raised"

\* C8: a google target above 100 is clamped to 100 before the first provider
\* call: at most 10 provider calls, and no start index above 91.
C8_ClampedToApiLimit ==
    (service = "google" /\ requested > 100) =>
        /\ total_results = 100
        /\ Len(requests) <= 10
        /\ \A i \in 1..Len(requests) : requests[i].start <= 91

\* C8 witness: the routes' target of 1000 run to its tenth and last call
C8_Witness ==
    /\ service = "google" /\ requested = MAX_GOOGLE_SEARCH_RESULTS
    /\ Len(requests) = 10
    /\ requests[10].start = 91
    /\ position = "returned"

\* C9: the sequence returned by search_multiple_pages never holds more items
\* than the requested total (after clamping to the provider maximum), whatever
\* number of items the provider returns for each page.
C9_AtMostRequestedTotal ==
    position = "returned" => Len(retval) <= Max(0, total_results)

\* C10: search_multiple_pages issues no further provider call once the number
\* of accumulated items has reached the (clamped) target count.
C10_NoCallOnceTargetReached ==
    \A i \in 1..Len(requests) : AccumulatedBefore(i) < total_results

(***************************************************************************)
(* Properties of the query store (SpecQuery)                               *)
(***************************************************************************)
\* the rows of a search_queries table that hold a generated_query
WithGeneratedQuery(rows, generated_query) ==
    {i \in 1..Len(rows) : rows[i].generated_query = generated_query}

\* C1: after any sequence of create calls the store holds at most one
\* SearchQuery row per generated_query: a create whose generated_query is
\* stored returns that row's id and leaves the row count unchanged, any other
\* create grows the row count by exactly one.
C1_OneRowPerGeneratedQuery ==
    /\ \A i, j \in 1..Len(queries) :
           i # j => queries[i].generated_query # queries[j].generated_query
    /\ lastCall.op = "create" =>
           LET stored == WithGeneratedQuery(lastCall.before, lastCall.generated_query)
           IN  IF stored # {}
                 THEN /\ \E i \in stored : lastCall.ret = lastCall.before[i].id
                      /\ Len(queries) = Len(lastCall.before)
                 ELSE /\ Len(queries) = Len(lastCall.before) + 1
                      /\ lastCall.ret \notin Ids(lastCall.before)

\* C1 witness: another user creates a stored generated_query with another text
C1_Witness ==
    /\ lastCall.op = "create"
    /\ \E i \in WithGeneratedQuery(lastCall.before, lastCall.generated_query) :
           /\ lastCall.before[i].user_input # lastCall.user_input
           /\ lastCall.before[i].created_user_id # lastCall.created_user_id
           /\ lastCall.ret = lastCall.before[i].id
    /\ Len(queries) = 2

(***************************************************************************)
(* Properties of the result store (SpecStore)                              *)
(***************************************************************************)
\* the rows of a search_results table that hold a URL
WithUrl(rows, url) == {i \in 1..Len(rows) : rows[i].linkedin_url = url}

\* the records of a batch carry pairwise distinct non-empty URLs
DistinctUrls(batch) ==
    /\ \A k \in 1..Len(batch) : Truthy(batch[k].link)
    /\ \A k, l \in 1..Len(batch) : k # l => batch[k].link # batch[l].link

\* the records of a batch whose URL was not stored before the call
Unstored(batch, before) ==
    {k \in 1..Len(batch) : WithUrl(before, batch[k].link) = {}}

\* C2: for a batch with pairwise distinct non-empty URLs, each record whose
\* URL is stored updates that stored record and adds no row, each record whose
\* URL is not stored adds exactly one row, and the row count grows by exactly
\* the number of records with unstored URLs.
C2_UpsertCounts ==
    (lastCall.op = "create_batch" /\ DistinctUrls(lastCall.results_payload)) =>
        LET batch == lastCall.results_payload
            before == lastCall.before
            ret == lastCall.ret
        IN  /\ Len(ret) = Len(batch)
            /\ \A k \in 1..Len(batch) :
                   IF k \in Unstored(batch, before)
                     THEN /\ ret[k] \notin Ids(before)
                          /\ ret[k] \in Ids(results)
                          /\ \A l \in 1..Len(batch) : l # k => ret[l] # ret[k]
                     ELSE /\ ret[k] \in Ids(before)
                          /\ RowById(before, ret[k]).linkedin_url = batch[k].link
                          /\ RowById(results, ret[k]).result_payload = batch[k]
                          /\ RowById(results, ret[k]).snippet = batch[k].snippet
                          /\ RowById(results, ret[k]).search_timestamp = now
            /\ Len(results) = Len(before) + Cardinality(Unstored(batch, before))
            /\ \A i \in 1..Len(before) :
                   \/ results[i] = before[i]
                   \/ \E k \in 1..Len(batch) : ret[k] = before[i].id

\* C2 witness: one record matches a stored URL, one carries a new URL
C2_Witness ==
    /\ lastCall.op = "create_batch"
    /\ DistinctUrls(lastCall.results_payload)
    /\ Len(lastCall.results_payload) = 2
    /\ Cardinality(Unstored(lastCall.results_payload, lastCall.before)) = 1
    /\ Len(results) = Len(lastCall.before) + 1
    /\ \E i \in 1..Len(lastCall.before) : results[i] # lastCall.before[i]

UrlLess(batch) == {k \in 1..Len(batch) : ~Truthy(batch[k].link)}

\* C4: every record submitted with an empty or missing URL is inserted as a
\* new row, never matched against another URL-less record of the batch nor
\* against a stored row whose URL is empty or null: a batch of n URL-less
\* records adds exactly n rows.
C4_UrlLessAlwaysInserted ==
    lastCall.op = "create_batch" =>
        LET batch == lastCall.results_payload
            before == lastCall.before
            ret == lastCall.ret
        IN  /\ \A k \in UrlLess(batch) :
                   /\ ret[k] \notin Ids(before)
                   /\ ret[k] \in Ids(results)
                   /\ RowById(results, ret[k]).linkedin_url = batch[k].link
                   /\ \A l \in 1..Len(batch) : l # k => ret[l] # ret[k]
            /\ UrlLess(batch) = 1..Len(batch) =>
                   Len(results) = Len(before) + Len(batch)

\* C4 witness: two records with the same empty URL are both inserted while
\* rows with an empty and with a null URL are stored
C4_Witness ==
    /\ lastCall.op = "create_batch"
    /\ Len(lastCall.results_payload) = 2
    /\ lastCall.results_payload[1].link = ""
    /\ lastCall.results_payload[2].link = ""
    /\ WithUrl(lastCall.before, "") # {}
    /\ WithUrl(lastCall.before, None) # {}
    /\ Len(results) = Len(lastCall.before) + 2

(***************************************************************************)
(* Claims about the order of the provider calls of one run                 *)
(***************************************************************************)
\* the page number a provider call asks for (google: from its start index)
PageOf(request) ==
    IF service = "google" THEN (request.start - 1) \div RESULTS_PER_PAGE + 1
                          ELSE request.page

\* call i of the run asked for page i, at the start index of page i
InPageOrder ==
    \A i \in 1..Len(requests) :
        /\ PageOf(requests[i]) = i
        /\ service = "google" => requests[i].start = 1 + (i - 1) * RESULTS_PER_PAGE

\* every call made has been answered, and only the last call may have failed
AnsweredInTurn ==
    /\ Len(responses) = Len(requests)
    /\ \A i \in 1..(Len(responses) - 1) : IsItems(responses[i])

\* a step of the run makes at most one provider call, and only while paging
OneCallPerStep ==
    \/ requests' = requests
    \/ /\ position = "paging"
       /\ Len(requests') = Len(requests) + 1
       /\ SubSeq(requests', 1, Len(requests)) = requests
       /\ Len(responses') = Len(requests')

\* C11: within one run of either fetcher the pages are requested one after
\* another in increasing order starting from page 1, each at most once: call i
\* asks for page i, every call is answered before the next is made, a failed
\* page is the last call of the run (never retried, nothing after it), and no
\* page is skipped.
C11_PagesInOrderOnce == [](InPageOrder /\ AnsweredInTurn) /\ [][OneCallPerStep]_vars

\* C11 witness: a google run for 30 items that asked for pages 1, 2, 3 in turn
\* and stopped at the failure of page 3
C11_Witness ==
    /\ service = "google" /\ requested = 30
    /\ Len(requests) = 3
    /\ requests[3].start = 21
    /\ IsError(responses[3])
    /\ position = "returned"

(***************************************************************************)
(* Claims about what create_batch returns (SpecStore)                      *)
(***************************************************************************)
\* C13: create_batch returns one stored record per submitted record, in
\* submission order: the list is as long as the batch, and its i-th element is
\* a stored record carrying the i-th submitted record (its URL and payload),
\* the record stored under that URL before the call if there was one, else a
\* record inserted by the call.
C13_OneRecordPerSubmitted ==
    lastCall.op = "create_batch" =>
        /\ Len(lastCall.ret) = Len(lastCall.results_payload)
        /\ \A k \in 1..Len(lastCall.results_payload) :
               LET payload == lastCall.results_payload[k]
                   was == WithUrl(lastCall.before, payload.link)
               IN  /\ lastCall.ret[k] \in Ids(results)
                   /\ RowById(results, lastCall.ret[k]).linkedin_url = payload.link
                   /\ RowById(results, lastCall.ret[k]).result_payload = payload
                   /\ IF Truthy(payload.link) /\ was # {}
                        THEN lastCall.ret[k] \in {lastCall.before[i].id : i \in was}
                        ELSE lastCall.ret[k] \notin Ids(lastCall.before)

\* C13 witness: a batch of a stored URL followed by a new one returned the
\* updated record first and the inserted record second
C13_Witness ==
    /\ lastCall.op = "create_batch"
    /\ Len(lastCall.results_payload) = 2
    /\ lastCall.results_payload[1].link = "https://linkedin.com/in/b"
    /\ lastCall.results_payload[2].link = "https://linkedin.com/in/a"
    /\ Len(lastCall.before) = 1
    /\ lastCall.before[1].linkedin_url = "https://linkedin.com/in/b"
    /\ lastCall.ret = <<1, 2>>

(***************************************************************************)
(* Claims about the transaction of create_batch (SpecBatch)                *)
(***************************************************************************)
\* the table after create_batch has applied a whole batch to the table before
AllApplied(before, next_id, call) ==
    UpsertFrom([rows |-> before, next_id |-> next_id, ret |-> <<>>], before,
               call.results_payload, 1, call.search_query_id,
               call.executed_by_user_id, call.t).rows

\* C12: create_batch applies its inserts and updates in one commit: while the
\* batch runs the database holds, for every other request, the table as it was
\* before the batch (none of its records applied); what another request reads
\* meanwhile is that table; after the commit it holds the table with every
\* record applied; and after an abort before the commit it holds the table as
\* it was before the batch.
C12_SingleCommit ==
    /\ session.state = "open" =>
           /\ results = session.before
           /\ lastCall.op = "get_by_query_id" =>
                  lastCall.ret = ResultsOfQuery(session.before, lastCall.search_query_id)
    /\ lastCall.op = "create_batch" =>
           \E first \in 1..next_result_id :
               results = AllApplied(lastCall.before, first, lastCall)
    /\ lastCall.op = "create_batch_aborted" => results = lastCall.before

\* C12 witness: a batch of two records is aborted after its session has
\* applied the first record, the stored table being empty
C12_Witness ==
    /\ lastCall.op = "create_batch_aborted"
    /\ Len(lastCall.results_payload) = 2
    /\ lastCall.at = 2
    /\ results = <<>>
    /\ next_result_id = 2

(***************************************************************************)
(* Claims about the searching routes (SpecSearch)                          *)
(***************************************************************************)
\* the last request ran a search to completion
Completed ==
    /\ lastCall.op \in {"execute_search", "generate_and_execute_search"}
    /\ lastCall.status = 200

\* the records of a batch that carry the URL of a stored row
Matching(batch, row) ==
    {k \in 1..Len(batch) : Truthy(row.linkedin_url) /\ batch[k].link = row.linkedin_url}

\* C14: a create_batch record whose URL matches a stored row overwrites exactly
\* that row's snippet, description, raw payload, search timestamp and acting
\* user, and leaves its id, owning query, URL, name, enrichment timestamp and
\* created_at as they were; a stored row whose URL is not in the batch is not
\* modified.
C14_UpdateFrame ==
    Completed =>
        LET batch == lastCall.found.returned
            was == lastCall.before.results
        IN  /\ Len(results) >= Len(was)
            /\ \A i \in 1..Len(was) :
                   IF Matching(batch, was[i]) = {}
                     THEN results[i] = was[i]
                     ELSE \E k \in Matching(batch, was[i]) :
                            results[i] =
                                [was[i] EXCEPT
                                    !.snippet = batch[k].snippet,
                                    !.description = batch[k].description,
                                    !.result_payload = batch[k],
                                    !.search_timestamp = now,
                                    !.executed_by_user_id = lastCall.current_user.id]

\* C14 witness: a search by another user for another query finds the URL of an
\* enriched row while a second stored row is not in its batch
C14_Witness ==
    /\ Completed
    /\ Len(lastCall.before.results) = 2
    /\ Len(results) = 2
    /\ Matching(lastCall.found.returned, lastCall.before.results[1]) # {}
    /\ Matching(lastCall.found.returned, lastCall.before.results[2]) = {}
    /\ lastCall.before.results[1].enriched_timestamp # Null
    /\ lastCall.before.results[1].search_query_id # lastCall.query_id
    /\ lastCall.before.results[1].executed_by_user_id # lastCall.current_user.id
    /\ results[1] # lastCall.before.results[1]

\* the rows of a table that carry an enrichment timestamp
Enriched(rows) == {i \in 1..Len(rows) : rows[i].enriched_timestamp # Null}

\* every enriched row that is still stored after the step is still enriched
StaysEnriched ==
    \A i \in Enriched(results) : \A j \in 1..Len(results') :
        results'[j].id = results[i].id => results'[j].enriched_timestamp # Null

\* C17: the enrichment timestamp is one-way: once a stored record carries
\* one, no later request (a create_batch that updates it by URL, a repeated
\* mark_enriched, the execution of any query) resets it to empty while the
\* record exists.
C17_EnrichedStaysEnriched == [][StaysEnriched]_vars

\* C17 witness: an enriched row has been updated by a later search
C17_Witness ==
    \E i \in Enriched(results) :
        /\ results[i].search_timestamp > results[i].enriched_timestamp
        /\ Completed

\* C18: every execute_search and generate_and_execute_search that completes
\* leaves the query with the current time as last-run timestamp and the caller
\* as last-run user, whatever the search found; when it found nothing no
\* SearchResult row is inserted or updated.
C18_CompletedRunIsStamped ==
    Completed =>
        /\ lastCall.query_id \in Ids(queries)
        /\ RowById(queries, lastCall.query_id).last_search_date = now
        /\ RowById(queries, lastCall.query_id).last_run_user_id = lastCall.current_user.id
        /\ lastCall.found.returned = <<>> => results = lastCall.before.results

\* C18 witness: an execution that found nothing re-stamps a query last run by
\* another user, with results stored
C18_Witness ==
    /\ Completed
    /\ lastCall.op = "execute_search"
    /\ lastCall.found.returned = <<>>
    /\ results # <<>>
    /\ RowById(lastCall.before.queries, lastCall.query_id).last_run_user_id
           \notin {Null, lastCall.current_user.id}

(***************************************************************************)
(* Claims about the generating routes (SpecGenerate)                       *)
(***************************************************************************)
\* the last request was a generate_search_query that stored its query
Generated == lastCall.op = "generate_search_query" /\ lastCall.status = 200

\* C15: when create matches a stored generated_query it sets that row's
\* user_input to the new text, its last_search_date to the current time and
\* its last_run_user_id to the caller, and leaves its id, generated_query,
\* created_user_id and created_at unchanged; when nothing matches it inserts a
\* row without last-run timestamp and last-run user; in both cases every other
\* SearchQuery row and every SearchResult row is unchanged.
C15_CreateFrame ==
    Generated =>
        LET was == lastCall.before.queries
            hit == WithGeneratedQuery(was, lastCall.generated)
        IN  /\ results = lastCall.before.results
            /\ \A i \in 1..Len(was) : i \notin hit => queries[i] = was[i]
            /\ IF hit # {}
                 THEN /\ Len(queries) = Len(was)
                      /\ \A i \in hit :
                             /\ queries[i].user_input = lastCall.user_input
                             /\ queries[i].last_search_date = now
                             /\ queries[i].last_run_user_id = lastCall.current_user.id
                             /\ queries[i].id = was[i].id
                             /\ queries[i].generated_query = was[i].generated_query
                             /\ queries[i].created_user_id = was[i].created_user_id
                             /\ queries[i].created_at = was[i].created_at
                 ELSE /\ Len(queries) = Len(was) + 1
                      /\ queries[Len(queries)].generated_query = lastCall.generated
                      /\ queries[Len(queries)].last_search_date = Null
                      /\ queries[Len(queries)].last_run_user_id = Null

\* C15 witness: a user submits a new text whose generated query another user
\* has stored, next to a second query and to stored results
C15_Witness ==
    /\ Generated
    /\ Len(lastCall.before.queries) = 2
    /\ results # <<>>
    /\ \E i \in WithGeneratedQuery(lastCall.before.queries, lastCall.generated) :
           /\ lastCall.before.queries[i].user_input # lastCall.user_input
           /\ lastCall.before.queries[i].created_user_id # lastCall.current_user.id

\* C19: when the query-generation call fails, the request fails and the store
\* is as it was: no SearchQuery inserted or updated, no provider call, no
\* SearchResult written.
C19_GenerationFailureWritesNothing ==
    (/\ lastCall.op \in {"generate_search_query", "generate_and_execute_search"}
     /\ lastCall.generated = OpenAIError) =>
        /\ lastCall.status = 500
        /\ ~lastCall.searched
        /\ queries = lastCall.before.queries
        /\ results = lastCall.before.results

\* C19 witness: a generate_and_execute_search whose generation fails, with
\* queries and results stored
C19_Witness ==
    /\ lastCall.op = "generate_and_execute_search"
    /\ lastCall.generated = OpenAIError
    /\ lastCall.status = 500
    /\ queries # <<>>
    /\ results # <<>>

(***************************************************************************)
(* Claims about deleting queries (SpecDelete)                              *)
(***************************************************************************)
\* the last request deleted a query
Deleted ==
    /\ lastCall.op \in {"delete_query", "admin_delete_query"}
    /\ lastCall.status = 200

\* C16: deleting a SearchQuery, by its creator or by an administrator through
\* either delete route, removes the query, every SearchResult owned by it and
\* no SearchResult owned by another query; and no stored SearchResult ever
\* references a query id that is not stored.
C16_DeleteCascades ==
    /\ \A i \in 1..Len(results) : results[i].search_query_id \in Ids(queries)
    /\ Deleted =>
           /\ lastCall.query_id \notin Ids(queries)
           /\ (lastCall.op = "delete_query" =>
                   \/ lastCall.current_user.is_admin
                   \/ RowById(lastCall.before.queries, lastCall.query_id).created_user_id
                          = lastCall.current_user.id)
           /\ results = Without(lastCall.before.results,
                                {i \in 1..Len(lastCall.before.results) :
                                    lastCall.before.results[i].search_query_id
                                        = lastCall.query_id})

\* C16 witness: an administrator deletes, through the users' route, a query of
\* the other user that owns a result, and a result of another query remains
C16_Witness ==
    /\ Deleted
    /\ lastCall.op = "delete_query"
    /\ lastCall.current_user.is_admin
    /\ RowById(lastCall.before.queries, lastCall.query_id).created_user_id
           # lastCall.current_user.id
    /\ Len(results) < Len(lastCall.before.results)
    /\ results # <<>>

(***************************************************************************)
(* Claims about requests that address a row by id (SpecById)               *)
(***************************************************************************)
QueryIdRoutes == {"get_query", "get_query_results", "execute_search",
                  "export_query_results_to_csv", "delete_query", "admin_delete_query"}
UserIdRoutes == {"get_user", "update_user", "activate_user", "reset_user_password",
                 "delete_user"}

\* the last request addressed a query, a result or a user whose id was not stored
AddressedUnknown ==
    \/ /\ lastCall.op \in QueryIdRoutes
       /\ lastCall.query_id \notin Ids(lastCall.before.queries)
    \/ /\ lastCall.op = "mark_result_enriched"
       /\ lastCall.result_id \notin Ids(lastCall.before.results)
    \/ /\ lastCall.op \in UserIdRoutes
       /\ lastCall.user_id \notin Ids(lastCall.before.users)

\* C20: every request addressed to an id that is not stored (get, list
\* results, execute, export and delete of a query; mark-enriched of a result;
\* the administrator's get, update, activate, reset-password and delete of a
\* user) ends in not-found, makes no provider call and leaves the queries, the
\* results and the users as they were.
C20_UnknownIdIsNotFound ==
    AddressedUnknown =>
        /\ lastCall.status = 404
        /\ ~lastCall.searched
        /\ Snapshot = lastCall.before

\* C20 witness: execute_search of a deleted query's id while another query
\* and its result are stored
C20_Witness ==
    /\ AddressedUnknown
    /\ lastCall.op = "execute_search"
    /\ lastCall.query_id < next_query_id - 1
    /\ queries # <<>>
    /\ results # <<>>
    /\ lastCall.status = 404

(***************************************************************************)
(* Claims about the bounds of a run of the fetchers                        *)
(***************************************************************************)
\* the run is over: search_multiple_pages has returned or raised
RunOver == position \in {"returned", "raised"}

\* a google run still paging has made fewer than 10 calls, a google run never
\* makes more than 10, and a google run for a target of 0 or less is over
\* without a call, with an empty list returned
GoogleCallsBounded ==
    service = "google" =>
        /\ Len(requests) <= 10
        /\ position = "paging" => Len(requests) < 10
        /\ requested <= 0 =>
               /\ position = "returned"
               /\ requests = <<>>
               /\ retval = <<>>

\* C24: for every target and every provider behaviour
\* GoogleSearchService.search_multiple_pages terminates after at most 10
\* provider calls; with a target of 0 or less it makes no provider call and
\* returns an empty sequence.
C24_GoogleTerminates == []GoogleCallsBounded /\ (position = "paging" ~> RunOver)

\* C24 witness: a google run for a negative target, over without a call
C24_Witness ==
    /\ service = "google" /\ requested < 0
    /\ position = "returned"
    /\ requests = <<>>
    /\ retval = <<>>

\* the sum of the sizes asked for by calls 1..k
RECURSIVE AskedFor(_)
AskedFor(k) == IF k = 0 THEN 0 ELSE AskedFor(k - 1) + requests[k].num

\* a google run that returned without early exit: every call was answered
\* with at least as many items as it asked for
NoEarlyExit ==
    /\ service = "google" /\ position = "returned"
    /\ \A k \in 1..Len(responses) :
           IsItems(responses[k]) /\ ~GoogleShortAt(k)

\* C25: the k-th page request of a google run uses start index 1 + 10(k-1)
\* and asks for min(10, T - 10(k-1)) items, T being the clamped target: every
\* request size lies between 1 and 10, a page that is answered with fewer
\* items than its own request size ends the run, and in a run without early
\* exit the request sizes sum to exactly T.
C25_RequestSizes ==
    service = "google" =>
        /\ \A k \in 1..Len(requests) :
               /\ requests[k].start = 1 + 10 * (k - 1)
               /\ requests[k].num = Min(10, total_results - 10 * (k - 1))
               /\ requests[k].num \in 1..10
        /\ \A k \in 1..(Len(responses) - 1) : ~GoogleShortAt(k)
        /\ NoEarlyExit /\ total_results > 0 => AskedFor(Len(requests)) = total_results

\* C25 witness: a target of 25 asks for 10, 10 and 5 items at 1, 11 and 21,
\* the last page answered with exactly the 5 items asked for
C25_Witness ==
    /\ NoEarlyExit
    /\ requested = 25
    /\ requests = <<[num |-> 10, start |-> 1], [num |-> 10, start |-> 11],
                    [num |-> 5, start |-> 21]>>
    /\ responses[3] = [items |-> 5]

\* C26: SerperSearchService.search_multiple_pages stops requesting pages as
\* soon as a page returns fewer than the 10 items requested: after such a
\* page the run is over and no further call is made.
C26_SerperShortPageEndsRun ==
    service = "serper" =>
        \A k \in 1..Len(responses) :
            (IsItems(responses[k]) /\ responses[k].items < RESULTS_PER_PAGE) =>
                /\ position = "returned"
                /\ Len(requests) = k
(***************************************************************************)
(* Properties of the users' administration (SpecAdmin)                     *)
(***************************************************************************)
\* the stored users who hold the email or the username of a body
Holders(rows, user_data) ==
    {i \in 1..Len(rows) : \/ rows[i].email = user_data.email
                          \/ rows[i].username = user_data.username}

\* C21: a create_user whose email or username a stored user already has is
\* answered 400, an error other than not-found, and leaves the users as they
\* were; a create_user with a fresh email and a fresh username is answered 201
\* and adds exactly one user, who carries the body's email and username
C21_CreateUserConflict ==
    lastCall.op = "create_user" =>
        LET was == lastCall.before.users
            user_data == lastCall.user_data
        IN  IF Holders(was, user_data) # {}
              THEN /\ lastCall.status = 400
                   /\ lastCall.status # 404
                   /\ users = was
              ELSE /\ lastCall.status = 201
                   /\ Len(users) = Len(was) + 1
                   /\ SubSeq(users, 1, Len(was)) = was
                   /\ users[Len(users)].email = user_data.email
                   /\ users[Len(users)].username = user_data.username
                   /\ users[Len(users)].id \notin Ids(was)

\* a create_user refused for the username alone, after one that was accepted
C21_Witness ==
    /\ lastCall.op = "create_user"
    /\ lastCall.status = 400
    /\ lastCall.detail = "Username already taken"
    /\ Len(users) = Len(SeedUsers) + 1
    /\ users = lastCall.before.users

\* the requests of app/routes/admin_routes.py
AdminRoutes ==
    {"create_user", "get_user", "update_user", "deactivate_user",
     "activate_user", "reset_user_password", "delete_user", "admin_delete_query"}

\* C30: after a request of an administrator to an administration route, the
\* administrator's own account is still stored and still active
C30_AdminKeepsOwnAccount ==
    lastCall.op \in AdminRoutes =>
        \E i \in 1..Len(users) : /\ users[i].id = lastCall.current_user.id
                                 /\ users[i].is_active

(***************************************************************************)
(* Who may delete a query (SpecDelete)                                     *)
(***************************************************************************)
\* the requester of the last request created the query or is an administrator
CreatorOrAdmin(row) ==
    \/ row.created_user_id = lastCall.current_user.id
    \/ lastCall.current_user.is_admin

\* C29: delete_query removes the query only for its creator or an
\* administrator; for any other user it answers 403 and the query and all the
\* stored results stay as they were
C29_DeleteNeedsCreatorOrAdmin ==
    (/\ lastCall.op = "delete_query"
     /\ lastCall.query_id \in Ids(lastCall.before.queries)) =>
        LET row == RowById(lastCall.before.queries, lastCall.query_id)
        IN  /\ lastCall.query_id \notin Ids(queries) => CreatorOrAdmin(row)
            /\ ~CreatorOrAdmin(row) =>
                   /\ lastCall.status = 403
                   /\ queries = lastCall.before.queries
                   /\ results = lastCall.before.results

\* a member's delete_query of the administrator's query, which owns results
C29_Witness ==
    /\ lastCall.op = "delete_query"
    /\ lastCall.status = 403
    /\ ~lastCall.current_user.is_admin
    /\ \E i \in 1..Len(results) : results[i].search_query_id = lastCall.query_id
    /\ RowById(queries, lastCall.query_id).created_user_id
           # lastCall.current_user.id

(***************************************************************************)
(* Whose the returned rows are (SpecSearch, SpecGenerate)                  *)
(***************************************************************************)
\* the distinct URLs of a batch
FetchedUrls(batch) ==
    {batch[k].link : k \in {j \in 1..Len(batch) : Truthy(batch[j].link)}}

\* C27: after a search of query Q that fetched at least one record, every
\* stored record create_batch returned is owned by Q, and the results counted
\* under Q are at least as many as the distinct URLs fetched
C27_ReturnedRecordsOwnedByQuery ==
    (Completed /\ Len(lastCall.found.returned) >= 1) =>
        /\ \A k \in 1..Len(lastCall.ret) :
               RowById(results, lastCall.ret[k]).search_query_id = lastCall.query_id
        /\ count_by_query_id(results, lastCall.query_id)
               >= Cardinality(FetchedUrls(lastCall.found.returned))

\* C28: the query id a successful generate_search_query returns is among the
\* queries get_my_queries lists for the requester
C28_GeneratedQueryListedForUser ==
    Generated =>
        \E row \in get_by_user(queries, lastCall.current_user.id) :
            row.id = lastCall.ret

(***************************************************************************)
(* Two requests at the same time (SpecRace)                                *)
(***************************************************************************)
\* C22: whatever the order of the look-ups and commits of two create_batch
\* calls that upsert a record with the same URL, at most one stored
\* SearchResult holds that URL, and its snippet, description and raw payload
\* are those of one and the same batch
C22_ConcurrentUpsertLastWriteWins ==
    \A i \in 1..Len(results) :
        Truthy(results[i].linkedin_url) =>
            /\ WithUrl(results, results[i].linkedin_url) = {i}
            /\ \E c \in Contents :
                   LET payload == Payload(results[i].linkedin_url, c)
                   IN  /\ results[i].result_payload = payload
                       /\ results[i].snippet = payload.snippet
                       /\ results[i].description = payload.description

\* C23: whatever the order of the look-ups and commits of two create calls
\* with the same generated query, exactly one stored SearchQuery holds that
\* generated query once one of them has committed
C23_ConcurrentCreateOneRow ==
    \A i \in 1..Len(queries) :
        WithGeneratedQuery(queries, queries[i].generated_query) = {i}

====
